---- MODULE Spec2Model ----
(***************************************************************************)
(* GardenPlanner persistence layer: the Zod validation helpers of          *)
(* app/data/schema.ts, the localStorage backed LocalStorageRepository,     *)
(* the IndexedDB backed DexieRepository and the one-time migration         *)
(* migrateLocalStorageToDexie.                                             *)
(*                                                                         *)
(* A localStorage value is a string.  The model keeps, for each string,    *)
(* what JSON.parse makes of it: kind "missing" (getItem returns null),     *)
(* "empty" (the string ""), "garbage" (JSON.parse throws), "null" and      *)
(* "number" (the texts null and 1), "object" (a JSON object, field obj)    *)
(* and "list" (a JSON array, field items).                                 *)
(***************************************************************************)
EXTENDS Integers, Sequences, FiniteSets, TLC

\* ------------------------------------------------------------------ bounds
\* Number of stored things (localStorage list items, non-list blobs, rows of
\* the Indexed-Store) that exist at startup.
MaxStored == 2

\* Number of repository calls the application makes in a session.
MaxCalls == 2

\* Number of calls made of the two adapters in lockstep.
MaxLockstep == 3

\* Largest number of rows, and of squares in a row, of a stored grid.
MaxGrid == 2

\* Number of repository calls started without awaiting the one before.
MaxInflight == 2

\* ------------------------------------------------------------------- names
ABSENT == "<absent>"
BAD == "<not-a-string>"

Collections == {"areas", "customPlants", "seedlings", "events"}

KEYS ==
  [areas |-> "gp_areas", customPlants |-> "gp_customPlants",
   seedlings |-> "gp_seedlings", settings |-> "gp_settings",
   events |-> "gp_events"]

\* Object.values(LEGACY_KEYS), in property order.
LEGACY_KEYS == <<"gp_areas", "gp_customPlants", "gp_seedlings", "gp_settings", "gp_events">>

MIGRATED_FLAG == "gp_migrated_to_dexie"

LsKeys == {LEGACY_KEYS[i] : i \in DOMAIN LEGACY_KEYS} \cup {MIGRATED_FLAG}

Ids == {"a1", "a2"}

\* The primary-key order of the Indexed-Store (Table.toArray returns rows by key).
IdOrder == <<"a1", "a2">>

\* ------------------------------------------------------------------ schema
\* One list item.  id, name and profileId stand for the three kinds of field
\* of AreaSchema/PlantSchema/SeedlingSchema: the key, a required field and a
\* field with a default.  GardenEventSchema has the required field date and
\* no name.  planters is the list of planters of an area, empty when the
\* field is absent (its default) and in the other collections.
NoItem ==
  [id |-> ABSENT, name |-> ABSENT, date |-> ABSENT, profileId |-> ABSENT,
   planters |-> <<>>]

\* PlanterSchema: rows and cols are integers from 1 to 20; squares is
\* optional, an array of arrays of PlanterSquare.  A square holds no plant
\* ("empty") or is not a PlanterSquare (BAD).
PlanterOK(p) ==
  /\ p.rows \in 1..20
  /\ p.cols \in 1..20
  /\ p.hasSquares =>
       \A i \in DOMAIN p.squares : \A j \in DOMAIN p.squares[i] :
         p.squares[i][j] # BAD

\* z.object(...).safeParse(item).success
SchemaOK(c, item) ==
  /\ item.id \in Ids
  /\ IF c = "events" THEN item.date \in {"t1", "t2"} ELSE item.name \in {"n1", "n2"}
  /\ item.profileId # BAD
  /\ \A i \in DOMAIN item.planters : PlanterOK(item.planters[i])

\* result.data: unknown keys stripped, defaults filled in.
SchemaData(c, item) ==
  [id |-> item.id,
   name |-> IF c = "events" THEN ABSENT ELSE item.name,
   date |-> IF c = "events" THEN item.date ELSE ABSENT,
   profileId |-> IF item.profileId = ABSENT THEN "default" ELSE item.profileId,
   planters |-> item.planters]

\* safeParse(schema, data, label): the parsed data, or null; as the one-or-none
\* list the callers' flatMap makes of it.
safeParse(c, item) ==
  IF SchemaOK(c, item) THEN <<SchemaData(c, item)>> ELSE <<>>

\* A read that validates the list as a whole: one invalid item and nothing
\* is returned.
parseWhole(c, items) ==
  IF \A i \in DOMAIN items : SchemaOK(c, items[i])
  THEN [i \in DOMAIN items |-> SchemaData(c, items[i])]
  ELSE <<>>

\* items.flatMap((item, i) => { const p = parse(item, i); return p ? [p] : [] })
RECURSIVE flatMapParse(_, _)
flatMapParse(c, items) ==
  IF items = <<>> THEN <<>>
  ELSE safeParse(c, Head(items)) \o flatMapParse(c, Tail(items))

\* new Date(date).getTime()
getTime(date) ==
  IF date = "t1" THEN 1 ELSE IF date = "t2" THEN 2 ELSE 0

\* Settings: location and growthZone of SettingsSchema (both with defaults).
NoObj == [location |-> ABSENT, growthZone |-> ABSENT]

SettingsDefaults == [location |-> "", growthZone |-> "6b"]

SettingsOK(o) ==
  o.location # BAD /\ o.growthZone # BAD

SettingsData(o) ==
  [location |-> IF o.location = ABSENT THEN SettingsDefaults.location ELSE o.location,
   growthZone |-> IF o.growthZone = ABSENT THEN SettingsDefaults.growthZone ELSE o.growthZone]

Range(seq) == {seq[i] : i \in DOMAIN seq}

\* ------------------------------------------------------- localStorage text
Missing == [kind |-> "missing", items |-> <<>>, obj |-> NoObj]
EmptyText == [kind |-> "empty", items |-> <<>>, obj |-> NoObj]
Garbage == [kind |-> "garbage", items |-> <<>>, obj |-> NoObj]
JsonNull == [kind |-> "null", items |-> <<>>, obj |-> NoObj]
\* The text 1: the value the migration stores under MIGRATED_FLAG.
One == [kind |-> "number", items |-> <<>>, obj |-> NoObj]

\* JSON.stringify of a list of entities / of a settings object.
stringifyList(items) == [kind |-> "list", items |-> items, obj |-> NoObj]
stringifyObj(o) == [kind |-> "object", items |-> <<>>, obj |-> o]

\* An object in memory, as the value parseWithDefaults is given.
objValue(o) == [kind |-> "object", items |-> <<>>, obj |-> o]

\* A parse that takes the fields of an object as they are stored, valid or
\* not, and fills in the absent ones.
parseFieldwise(v) ==
  IF v.kind = "object" THEN SettingsData(v.obj) ELSE SettingsData(NoObj)

\* parseWithDefaults(SettingsSchema, data), data a parsed JSON value.
parseWithDefaults(v) ==
  IF v.kind = "object" /\ SettingsOK(v.obj) THEN SettingsData(v.obj)
  ELSE SettingsData(NoObj)

\* ------------------------------------------------------------------- state
VARIABLES
  ls,       \* localStorage: key -> text
  db,       \* GardenPlannerDB: table -> set of rows (areas, customPlants, seedlings, events by id; settings by key)
  pc,       \* migrateLocalStorageToDexie: "idle", "awaiting" (Promise.all), "resolved", "cleanup"
  writes,   \* the promises handed to Promise.all, in order, with their state
  rm,       \* cleanup: index in LEGACY_KEYS of the next key to remove
  outcome,  \* how the last migration run ended
  ls0,      \* localStorage as the first migration run found it
  db0,      \* the Indexed-Store as the first migration run found it
  active,   \* the adapter the application uses: "ls" or "db"
  retry,    \* whether the migration run follows one aborted by a write fault
  calls,    \* the number of repository calls made so far
  last,     \* the last repository call: its arguments, whether it met a fault, whether it repeats the call before, whether its id was held, whether it threw, whether the stored list held an invalid item
  inflight  \* the repository calls started and not awaited, in the order started, each with what it read and whether it has completed

vars == <<ls, db, pc, writes, rm, outcome, ls0, db0, active, retry, calls, last, inflight>>

migVars == <<pc, writes, rm, outcome, retry>>

\* --------------------------------------------------- LocalStorageRepository
\* readRaw(key): null on a missing key or a parse error.
readRaw(key) ==
  IF ls[key].kind \in {"missing", "empty", "garbage"} THEN JsonNull ELSE ls[key]

\* A read without the Array.isArray check: a value that is not a list is
\* taken for a list of one item.
readArrayUnchecked(c) ==
  LET raw == readRaw(KEYS[c])
  IN IF raw.kind # "list" THEN <<NoItem>> ELSE flatMapParse(c, raw.items)

\* readArray(key, parse)
readArray(c) ==
  LET raw == readRaw(KEYS[c])
  IN IF raw.kind # "list" THEN <<>> ELSE flatMapParse(c, raw.items)

\* ------------------------------------------------------------ Indexed-Store
EmptyDb ==
  [areas |-> {}, customPlants |-> {}, seedlings |-> {}, events |-> {}, settings |-> {}]

\* Table.add in place of Table.put: a row whose key is taken is not stored.
add(table, row) ==
  IF \E r \in table : r.id = row.id THEN table ELSE table \cup {row}

\* Table.put(row): insert, or replace the row with the same primary key.
put(table, row) ==
  {r \in table : r.id # row.id} \cup {row}

\* Table.toArray(): the rows in primary-key order.
RECURSIVE toArrayFrom(_, _)
toArrayFrom(table, ids) ==
  IF ids = <<>> THEN <<>>
  ELSE (IF \E r \in table : r.id = Head(ids)
        THEN <<CHOOSE r \in table : r.id = Head(ids)>> ELSE <<>>)
       \o toArrayFrom(table, Tail(ids))

toArray(table) == toArrayFrom(table, IdOrder)

\* db.settings.put({ key: "singleton", value: settings })
putSettings(table, settings) ==
  {r \in table : r.key # "singleton"} \cup {[key |-> "singleton", value |-> settings]}

\* ----------------------------------------------------------------- migration
\* A read of a legacy key that validates its list as a whole.
readLegacyWhole(c) ==
  IF ls[KEYS[c]].kind = "list" THEN parseWhole(c, ls[KEYS[c]].items) ELSE <<>>

\* readLegacyArray(key, parse)
readLegacyArray(c) ==
  LET raw == ls[KEYS[c]]
  IN IF raw.kind \in {"missing", "empty"} THEN <<>>
     ELSE IF raw.kind = "garbage" THEN <<>>
     ELSE IF raw.kind # "list" THEN <<>>
     ELSE flatMapParse(c, raw.items)

\* settingsRaw of migrateLocalStorageToDexie, then parseWithDefaults.
legacySettings ==
  LET raw == ls[KEYS.settings]
  IN IF raw.kind \in {"missing", "empty", "garbage"} THEN parseWithDefaults(objValue(NoObj))
     ELSE parseWithDefaults(raw)

NoSettings == [location |-> ABSENT, growthZone |-> ABSENT]

\* repo.saveArea(a) ... repo.saveEvent(e): one db.<table>.put per entity.
saveCalls(c, items) ==
  [i \in 1..Len(items) |->
     [table |-> c, row |-> items[i], value |-> NoSettings, status |-> "pending"]]

\* The array handed to Promise.all.
migrationWrites ==
  saveCalls("areas", readLegacyArray("areas"))
  \o saveCalls("customPlants", readLegacyArray("customPlants"))
  \o saveCalls("seedlings", readLegacyArray("seedlings"))
  \o saveCalls("events", readLegacyArray("events"))
  \o <<[table |-> "settings", row |-> NoItem, value |-> legacySettings, status |-> "pending"]>>

Pending == {i \in DOMAIN writes : writes[i].status = "pending"}

\* IndexedDB starts read-write transactions on one object store in the order
\* they were created; transactions on different stores run independently.
canComplete(i) ==
  /\ i \in Pending
  /\ \A j \in 1..(i - 1) : writes[j].table = writes[i].table => j \notin Pending

\* Promise.any in place of Promise.all: resolved once one call has resolved.
anyResolved(ws) ==
  \E i \in DOMAIN ws : ws[i].status = "ok"

\* Promise.all resolves when every promise has resolved.
allResolved(ws) ==
  \A i \in DOMAIN ws : ws[i].status = "ok"

\* A comparison of the flag with "true" in place of "1": never equal.
flagIsTrue ==
  ls[MIGRATED_FLAG] = [One EXCEPT !.kind = "true"]

\* if (localStorage.getItem(MIGRATED_FLAG) === "1") return;
alreadyMigrated ==
  ls[MIGRATED_FLAG] = One

\* migrateLocalStorageToDexie up to its await: the flag check, the reads and
\* the save calls.
MigrateStart ==
  /\ pc = "idle"
  /\ Pending = {}
  /\ IF alreadyMigrated
     THEN /\ outcome' = "noop"
          /\ UNCHANGED <<ls, db, pc, writes, rm, retry>>
     ELSE /\ writes' = migrationWrites
          /\ pc' = "awaiting"
          /\ outcome' = "running"
          /\ retry' = (outcome = "aborted")
          /\ UNCHANGED <<ls, db, rm>>
  /\ IF outcome = "none"
     THEN ls0' = ls /\ db0' = db
     ELSE UNCHANGED <<ls0, db0>>
  /\ UNCHANGED <<active, calls, last, inflight>>

\* A write that replaces the table by the row written.
applyWriteFresh(w) ==
  IF w.table = "settings"
  THEN [db EXCEPT !.settings = putSettings({}, w.value)]
  ELSE [db EXCEPT ![w.table] = {w.row}]

applyWrite(w) ==
  IF w.table = "settings"
  THEN [db EXCEPT !.settings = putSettings(@, w.value)]
  ELSE [db EXCEPT ![w.table] = put(@, w.row)]

\* One put commits.  When it is the last one, Promise.all resolves.
WriteOk(i) ==
  /\ canComplete(i)
  /\ db' = applyWrite(writes[i])
  /\ writes' = [writes EXCEPT ![i].status = "ok"]
  /\ pc' = IF pc = "awaiting" /\ allResolved(writes') THEN "resolved" ELSE pc
  /\ UNCHANGED <<ls, rm, outcome, ls0, db0, active, retry, calls, last, inflight>>

\* Promise.allSettled in place of Promise.all: a rejected call is waited for
\* like a resolved one.
WriteFailSettled(i) ==
  /\ canComplete(i)
  /\ writes' = [writes EXCEPT ![i].status = "failed"]
  /\ pc' = IF pc = "awaiting" /\ \A j \in DOMAIN writes' : writes'[j].status # "pending"
           THEN "resolved" ELSE pc
  /\ UNCHANGED <<ls, db, rm, outcome, ls0, db0, active, retry, calls, last, inflight>>

\* A rejected put that undoes the writes of the run: the Indexed-Store is
\* again as the run found it.
WriteFailRollback(i) ==
  /\ canComplete(i)
  /\ writes' = [writes EXCEPT ![i].status = "failed"]
  /\ db' = db0
  /\ pc' = IF pc = "awaiting" THEN "idle" ELSE pc
  /\ outcome' = IF pc = "awaiting" THEN "aborted" ELSE outcome
  /\ UNCHANGED <<ls, rm, ls0, db0, active, retry, calls, last, inflight>>

\* One put rejects (quota, aborted transaction): the row is not written and
\* Promise.all rejects at once; the other puts stay in flight.
WriteFail(i) ==
  /\ canComplete(i)
  /\ writes' = [writes EXCEPT ![i].status = "failed"]
  /\ pc' = IF pc = "awaiting" THEN "idle" ELSE pc
  /\ outcome' = IF pc = "awaiting" THEN "aborted" ELSE outcome
  /\ UNCHANGED <<ls, db, rm, ls0, db0, active, retry, calls, last, inflight>>

\* localStorage.setItem(MIGRATED_FLAG, "1"), which may throw (quota).
SetFlag ==
  /\ pc = "resolved"
  /\ \/ /\ ls' = [ls EXCEPT ![MIGRATED_FLAG] = One]
        /\ pc' = "cleanup"
        /\ rm' = 1
        /\ UNCHANGED outcome
     \/ /\ pc' = "idle"
        /\ outcome' = "flagfault"
        /\ UNCHANGED <<ls, rm>>
  /\ UNCHANGED <<db, writes, ls0, db0, active, retry, calls, last, inflight>>

\* Object.values(LEGACY_KEYS).forEach((key) => localStorage.removeItem(key))
RemoveKey ==
  /\ pc = "cleanup"
  /\ ls' = [ls EXCEPT ![LEGACY_KEYS[rm]] = Missing]
  /\ IF rm = Len(LEGACY_KEYS)
     THEN pc' = "idle" /\ outcome' = "done" /\ rm' = 0
     ELSE pc' = pc /\ outcome' = outcome /\ rm' = rm + 1
  /\ UNCHANGED <<db, writes, ls0, db0, active, retry, calls, last, inflight>>

\* The page goes away (reload, closed tab, crash): the run stops where it is
\* and the puts still in flight are not committed.
Crash ==
  /\ pc # "idle" \/ Pending # {}
  /\ writes' = [i \in DOMAIN writes |->
                  IF i \in Pending THEN [writes[i] EXCEPT !.status = "failed"] ELSE writes[i]]
  /\ pc' = "idle"
  /\ rm' = 0
  /\ outcome' = IF pc # "idle" THEN "crashed" ELSE outcome
  /\ UNCHANGED <<ls, db, ls0, db0, active, retry, calls, last, inflight>>


\* ------------------------------------------------- LocalStorageRepository

\* Array.prototype.sort with the comparator of getEvents: newest first, and
\* stable, so events of equal date keep their order.
RECURSIVE insertNewestFirst(_, _)
insertNewestFirst(sorted, e) ==
  IF sorted = <<>> THEN <<e>>
  ELSE IF getTime(Head(sorted).date) >= getTime(e.date)
       THEN <<Head(sorted)>> \o insertNewestFirst(Tail(sorted), e)
       ELSE <<e>> \o sorted

\* The events as they are stored, with no sort.
storedOrder(events) == events

RECURSIVE sortNewestFirst(_)
sortNewestFirst(events) ==
  IF events = <<>> THEN <<>>
  ELSE insertNewestFirst(sortNewestFirst(SubSeq(events, 1, Len(events) - 1)),
                         events[Len(events)])

\* A getter that returns the stored items as they are, valid or not.
lsGetAllRaw(c) ==
  LET raw == readRaw(KEYS[c])
      items == IF raw.kind = "list" THEN raw.items ELSE <<>>
  IN IF c = "events" THEN sortNewestFirst(items) ELSE items

\* getAreas / getCustomPlants / getSeedlings / getEvents of the Flat-Store.
lsGetAll(c) ==
  IF c = "events" THEN sortNewestFirst(readArray(c)) ELSE readArray(c)

\* getSettings of the Flat-Store: parseWithDefaults(SettingsSchema, raw ?? {}).
lsGetSettings ==
  LET raw == readRaw(KEYS.settings)
  IN parseWithDefaults(IF raw.kind = "null" THEN objValue(NoObj) ELSE raw)

\* items.findIndex((x) => x.id === next.id): the first match, -1 if none.
findIndex(items, id) ==
  IF \E i \in DOMAIN items : items[i].id = id
  THEN CHOOSE i \in DOMAIN items :
         items[i].id = id /\ \A j \in 1..(i - 1) : items[j].id # id
  ELSE -1

\* An upsert that keeps the stored item of the id: push if absent, and no
\* replacement.
pushIfAbsent(items, next) ==
  IF findIndex(items, next.id) = -1 THEN Append(items, next) ELSE items

\* upsert: replace the item at the first matching index, or push.
upsert(items, next) ==
  LET idx == findIndex(items, next.id)
  IN IF idx = -1 THEN Append(items, next) ELSE [items EXCEPT ![idx] = next]

\* current.filter((a) => a.id !== id)
filterOut(items, id) ==
  SelectSeq(items, LAMBDA x : x.id # id)

\* A write that leaves a text cut short under the key when it fails.
writeTorn(key, text, fault) ==
  [ls EXCEPT ![key] = IF fault THEN Garbage ELSE text]

\* writeRaw: setItem of the serialised value; a throw (quota) is caught and
\* the key keeps its old text.
writeRaw(key, text, fault) ==
  IF fault THEN ls ELSE [ls EXCEPT ![key] = text]

\* What a repository call records of itself.
NoCall ==
  [op |-> "none", c |-> "none", item |-> NoItem, value |-> NoSettings,
   fault |-> FALSE, again |-> FALSE, hit |-> FALSE, threw |-> FALSE,
   dirty |-> FALSE]

\* Whether the adapter in use holds a valid entity of the id in a collection;
\* for a call on all collections, whether it holds a valid entity at all.
holds(c, id) ==
  LET in(d) == IF active = "ls" THEN Range(readArray(d))
               ELSE {r \in db[d] : SchemaOK(d, r)}
  IN IF c = "all" THEN \E d \in Collections : in(d) # {}
     ELSE c \in Collections /\ \E x \in in(c) : x.id = id

\* Whether the list stored under the key of a collection of the Flat-Store
\* holds an item that fails its schema.
holdsInvalid(c) ==
  /\ active = "ls" /\ c \in Collections
  /\ ls[KEYS[c]].kind = "list"
  /\ \E i \in DOMAIN ls[KEYS[c]].items : ~SchemaOK(c, ls[KEYS[c]].items[i])

Did(op, c, item, value, fault) ==
  [op |-> op, c |-> c, item |-> item, value |-> value, fault |-> fault,
   again |-> /\ last.op = op /\ last.c = c /\ last.item = item
             /\ last.value = value /\ ~last.fault /\ ~fault,
   hit |-> holds(c, item.id),
   threw |-> FALSE,
   dirty |-> holdsInvalid(c)]

\* A call of the Indexed-Store: the put, delete or clear is awaited outside
\* any try, so the call rejects when it rejects.
DidAwait(op, c, item, value, fault) ==
  [Did(op, c, item, value, fault) EXCEPT !.threw = fault]

\* saveArea / savePlant / saveSeedling / saveEvent of the Flat-Store.
LsSave(c, e, fault) ==
  /\ active = "ls" /\ calls < MaxCalls
  /\ calls' = calls + 1
  /\ ls' = writeRaw(KEYS[c], stringifyList(upsert(lsGetAll(c), e)), fault)
  /\ last' = Did("save", c, e, NoSettings, fault)
  /\ UNCHANGED <<db, migVars, ls0, db0, active, inflight>>

\* deleteArea / deletePlant / deleteSeedling / deleteEvent of the Flat-Store.
LsDelete(c, id, fault) ==
  /\ active = "ls" /\ calls < MaxCalls
  /\ calls' = calls + 1
  /\ ls' = writeRaw(KEYS[c], stringifyList(filterOut(lsGetAll(c), id)), fault)
  /\ last' = Did("delete", c, [NoItem EXCEPT !.id = id], NoSettings, fault)
  /\ UNCHANGED <<db, migVars, ls0, db0, active, inflight>>

\* saveSettings of the Flat-Store.
LsSaveSettings(s, fault) ==
  /\ active = "ls" /\ calls < MaxCalls
  /\ calls' = calls + 1
  /\ ls' = writeRaw(KEYS.settings, stringifyObj(s), fault)
  /\ last' = Did("saveSettings", "settings", NoItem, s, fault)
  /\ UNCHANGED <<db, migVars, ls0, db0, active, inflight>>

\* A clearAll that removes the keys of the lists and leaves the settings.
LsClearLists ==
  /\ active = "ls" /\ calls < MaxCalls
  /\ calls' = calls + 1
  /\ ls' = [k \in LsKeys |->
              IF \E c \in Collections : KEYS[c] = k THEN Missing ELSE ls[k]]
  /\ last' = Did("clearAll", "all", NoItem, NoSettings, FALSE)
  /\ UNCHANGED <<db, migVars, ls0, db0, active, inflight>>

\* A clearAll by localStorage.clear(): every key goes, the flag of the
\* migration with them.
LsClearStorage ==
  /\ active = "ls" /\ calls < MaxCalls
  /\ calls' = calls + 1
  /\ ls' = [k \in LsKeys |-> Missing]
  /\ last' = Did("clearAll", "all", NoItem, NoSettings, FALSE)
  /\ UNCHANGED <<db, migVars, ls0, db0, active, inflight>>

\* getAreas / getCustomPlants / getSeedlings / getEvents of the Flat-Store as
\* a call: readRaw and readArray read, and write nothing; the result is
\* lsGetAll(c).
LsGetAll(c) ==
  /\ active = "ls" /\ calls < MaxCalls
  /\ calls' = calls + 1
  /\ last' = Did("getAll", c, NoItem, NoSettings, FALSE)
  /\ UNCHANGED <<ls, db, migVars, ls0, db0, active, inflight>>

\* clearAll of the Flat-Store: removeItem for every key of KEYS.
LsClearAll ==
  /\ active = "ls" /\ calls < MaxCalls
  /\ calls' = calls + 1
  /\ ls' = [k \in LsKeys |->
              IF \E c \in DOMAIN KEYS : KEYS[c] = k THEN Missing ELSE ls[k]]
  /\ last' = Did("clearAll", "all", NoItem, NoSettings, FALSE)
  /\ UNCHANGED <<db, migVars, ls0, db0, active, inflight>>

\* -------------------------------------------------------- DexieRepository

\* getAreas / getCustomPlants / getSeedlings / getEvents of the Indexed-Store.
dbGetAll(c) ==
  LET parsed == flatMapParse(c, toArray(db[c]))
  IN IF c = "events" THEN sortNewestFirst(parsed) ELSE parsed

\* getSettings of the Indexed-Store: parseWithDefaults(row?.value ?? {}).
dbGetSettings ==
  IF \E r \in db.settings : r.key = "singleton"
  THEN parseWithDefaults(objValue((CHOOSE r \in db.settings : r.key = "singleton").value))
  ELSE parseWithDefaults(objValue(NoObj))

\* A delete that empties the table.
clearRows(table, id) == {}

\* Table.delete(id)
deleteRow(table, id) ==
  {r \in table : r.id # id}

\* saveArea / savePlant / saveSeedling / saveEvent of the Indexed-Store: the
\* put is awaited, and a rejected put leaves the table as it was.
DbSave(c, e, fault) ==
  /\ active = "db" /\ calls < MaxCalls
  /\ calls' = calls + 1
  /\ db' = IF fault THEN db ELSE [db EXCEPT ![c] = put(@, e)]
  /\ last' = DidAwait("save", c, e, NoSettings, fault)
  /\ UNCHANGED <<ls, migVars, ls0, db0, active, inflight>>

\* deleteArea / deletePlant / deleteSeedling / deleteEvent of the Indexed-Store.
DbDelete(c, id, fault) ==
  /\ active = "db" /\ calls < MaxCalls
  /\ calls' = calls + 1
  /\ db' = IF fault THEN db ELSE [db EXCEPT ![c] = deleteRow(@, id)]
  /\ last' = DidAwait("delete", c, [NoItem EXCEPT !.id = id], NoSettings, fault)
  /\ UNCHANGED <<ls, migVars, ls0, db0, active, inflight>>

\* saveSettings of the Indexed-Store.
DbSaveSettings(s, fault) ==
  /\ active = "db" /\ calls < MaxCalls
  /\ calls' = calls + 1
  /\ db' = IF fault THEN db ELSE [db EXCEPT !.settings = putSettings(@, s)]
  /\ last' = DidAwait("saveSettings", "settings", NoItem, s, fault)
  /\ UNCHANGED <<ls, migVars, ls0, db0, active, inflight>>

\* clearAll of the Indexed-Store: five clear() calls under Promise.all, each
\* its own transaction; the tables in failed keep their rows.
DbClearAll(failed) ==
  /\ active = "db" /\ calls < MaxCalls
  /\ calls' = calls + 1
  /\ db' = [t \in DOMAIN KEYS |-> IF t \in failed THEN db[t] ELSE {}]
  /\ last' = DidAwait("clearAll", "all", NoItem, NoSettings, failed # {})
  /\ UNCHANGED <<ls, migVars, ls0, db0, active, inflight>>

\* ------------------------------------------------ calls that are not awaited

\* A call as the caller holds it: its arguments, the list its synchronous
\* part has read, whether a call started before it was still suspended when
\* it started, and whether it has completed.
Call(op, c, item, current) ==
  [op |-> op, c |-> c, item |-> item, current |-> current,
   overlap |-> \E j \in DOMAIN inflight : ~inflight[j].done,
   done |-> FALSE]

\* saveArea and the like of the Flat-Store up to the await: this.getAreas()
\* runs readArray at once, and the await of its promise suspends the call.
LsStartSave(c, e) ==
  /\ active = "ls" /\ Len(inflight) < MaxInflight
  /\ inflight' = Append(inflight, Call("save", c, e, lsGetAll(c)))
  /\ UNCHANGED <<ls, db, migVars, ls0, db0, active, calls, last>>

\* deleteArea and the like of the Flat-Store up to the await.
LsStartDelete(c, id) ==
  /\ active = "ls" /\ Len(inflight) < MaxInflight
  /\ inflight' = Append(inflight, Call("delete", c, [NoItem EXCEPT !.id = id], lsGetAll(c)))
  /\ UNCHANGED <<ls, db, migVars, ls0, db0, active, calls, last>>

\* The call suspended first resumes (promise reactions run in the order
\* they were queued) and writes the list it has read, changed.
LsResume ==
  /\ active = "ls"
  /\ \E i \in DOMAIN inflight :
       /\ ~inflight[i].done
       /\ \A j \in 1..(i - 1) : inflight[j].done
       /\ LET call == inflight[i]
              next == IF call.op = "save" THEN upsert(call.current, call.item)
                      ELSE filterOut(call.current, call.item.id)
          IN /\ ls' = writeRaw(KEYS[call.c], stringifyList(next), FALSE)
             /\ last' = Did(call.op, call.c, call.item, NoSettings, FALSE)
       /\ inflight' = [inflight EXCEPT ![i].done = TRUE]
  /\ calls' = calls + 1
  /\ UNCHANGED <<db, migVars, ls0, db0, active>>

\* A write of one table that replaces the table by what the call knows:
\* the row saved, or nothing.
replaceTable(table, call) ==
  IF call.op = "save" THEN {call.item} ELSE {}

\* Table.put(row) / Table.delete(id) of a call.
applyCall(table, call) ==
  IF call.op = "save" THEN put(table, call.item) ELSE deleteRow(table, call.item.id)

\* saveArea / deleteArea and the like of the Indexed-Store up to the await:
\* the request is handed to the storage engine.
DbStart(op, c, item) ==
  /\ active = "db" /\ Len(inflight) < MaxInflight
  /\ inflight' = Append(inflight, Call(op, c, item, <<>>))
  /\ UNCHANGED <<ls, db, migVars, ls0, db0, active, calls, last>>

\* The storage engine commits the request of a call, and the call returns.
DbComplete(i) ==
  /\ active = "db"
  /\ i \in DOMAIN inflight /\ ~inflight[i].done
  /\ db' = [db EXCEPT ![inflight[i].c] = applyCall(@, inflight[i])]
  /\ inflight' = [inflight EXCEPT ![i].done = TRUE]
  /\ last' = DidAwait(inflight[i].op, inflight[i].c, inflight[i].item, NoSettings, FALSE)
  /\ calls' = calls + 1
  /\ UNCHANGED <<ls, migVars, ls0, db0, active>>

\* ------------------------------------------------- both adapters in lockstep

\* One call made of a LocalStorageRepository and of a DexieRepository alike,
\* with no storage fault.
BothSave(c, e) ==
  /\ active = "both" /\ calls < MaxLockstep
  /\ calls' = calls + 1
  /\ ls' = writeRaw(KEYS[c], stringifyList(upsert(lsGetAll(c), e)), FALSE)
  /\ db' = [db EXCEPT ![c] = put(@, e)]
  /\ last' = Did("save", c, e, NoSettings, FALSE)
  /\ UNCHANGED <<migVars, ls0, db0, active, inflight>>

BothDelete(c, id) ==
  /\ active = "both" /\ calls < MaxLockstep
  /\ calls' = calls + 1
  /\ ls' = writeRaw(KEYS[c], stringifyList(filterOut(lsGetAll(c), id)), FALSE)
  /\ db' = [db EXCEPT ![c] = deleteRow(@, id)]
  /\ last' = Did("delete", c, [NoItem EXCEPT !.id = id], NoSettings, FALSE)
  /\ UNCHANGED <<migVars, ls0, db0, active, inflight>>

BothSaveSettings(s) ==
  /\ active = "both" /\ calls < MaxLockstep
  /\ calls' = calls + 1
  /\ ls' = writeRaw(KEYS.settings, stringifyObj(s), FALSE)
  /\ db' = [db EXCEPT !.settings = putSettings(@, s)]
  /\ last' = Did("saveSettings", "settings", NoItem, s, FALSE)
  /\ UNCHANGED <<migVars, ls0, db0, active, inflight>>

BothClearAll ==
  /\ active = "both" /\ calls < MaxLockstep
  /\ calls' = calls + 1
  /\ ls' = [k \in LsKeys |->
              IF \E c \in DOMAIN KEYS : KEYS[c] = k THEN Missing ELSE ls[k]]
  /\ db' = EmptyDb
  /\ last' = Did("clearAll", "all", NoItem, NoSettings, FALSE)
  /\ UNCHANGED <<migVars, ls0, db0, active, inflight>>

\* ---------------------------------------------------------- initial contents

\* Items as they may lie in a stored list: complete, lacking a required
\* field, and complete but for the defaulted field.
RawItems(c) ==
  LET item(id, req, def) ==
        [id |-> id,
         name |-> IF c = "events" THEN ABSENT ELSE req,
         date |-> IF c = "events" THEN (IF req = "n1" THEN "t1" ELSE IF req = "n2" THEN "t2" ELSE ABSENT)
                  ELSE ABSENT,
         profileId |-> def,
         planters |-> <<>>]
  IN {item(IdOrder[1], "n1", "default"), item(IdOrder[1], ABSENT, ABSENT),
      item(IdOrder[2], "n1", "default"), item(IdOrder[2], "n2", ABSENT)}

\* Settings objects as they may lie in storage: partial, with a field of the
\* wrong type, complete.
RawSettingsObjs ==
  {[location |-> "Amsterdam", growthZone |-> ABSENT],
   [location |-> BAD, growthZone |-> "8b"],
   [location |-> "Amsterdam", growthZone |-> "8b"]}

\* The values of the entity types (z.infer of the schemas): what save and
\* saveSettings are given.
Entities(c) == {SchemaData(c, r) : r \in {x \in RawItems(c) : SchemaOK(c, x)}}
SettingsValues == {SettingsData(o) : o \in {x \in RawSettingsObjs : SettingsOK(x)}}

\* Planters as they may lie in a stored area: rows within and beyond the
\* limit, and no grid or a grid of any shape.
GridRows == UNION {[1..n -> {"empty", BAD}] : n \in 0..MaxGrid}
Grids == UNION {[1..n -> GridRows] : n \in 0..MaxGrid}
RawPlanters ==
  {[id |-> "p1", rows |-> r, cols |-> k, hasSquares |-> FALSE, squares |-> <<>>] :
     r \in {1, 2, 21}, k \in {1, 2}}
  \cup {[id |-> "p1", rows |-> r, cols |-> k, hasSquares |-> TRUE, squares |-> g] :
          r \in {1, 2, 21}, k \in {1, 2}, g \in Grids}

\* Stored areas with one planter, and the Area values among them.
RawPlanterAreas ==
  {[id |-> IdOrder[1], name |-> "n1", date |-> ABSENT, profileId |-> "default",
    planters |-> <<p>>] : p \in RawPlanters}
PlanterAreas ==
  {SchemaData("areas", a) : a \in {x \in RawPlanterAreas : SchemaOK("areas", x)}}

\* One stored thing: an item of a list blob, a whole blob that is not a list
\* of items, or a row of a table.
LsItems ==
  {[store |-> "ls", c |-> c, blob |-> Missing, item |-> it] :
     c \in Collections, it \in UNION {RawItems(x) : x \in Collections}}
LsBlobs(texts) ==
  {[store |-> "ls", c |-> c, blob |-> b, item |-> NoItem] :
     c \in Collections, b \in texts}
LsSettings(texts) ==
  {[store |-> "ls", c |-> "settings", blob |-> b, item |-> NoItem] : b \in texts}
DbRows(variants) ==
  {[store |-> "db", c |-> c, blob |-> Missing, item |-> it] :
     c \in Collections, it \in UNION {RawItems(x) : x \in Collections} \cap variants}
DbSettings(objs) ==
  {[store |-> "db", c |-> "settings", blob |-> objValue(o), item |-> NoItem] : o \in objs}

ThingOK(t) ==
  t.item = NoItem \/ t.item \in RawItems(t.c)

Configs(things) ==
  UNION {[1..n -> {t \in things : ThingOK(t)}] : n \in 0..MaxStored}

\* The text under a key: the blob stored whole if there is one, else the
\* list of the items stored, in their order; no key if nothing is stored.
lsOf(cfg, c) ==
  LET here == SelectSeq(cfg, LAMBDA t : t.store = "ls" /\ t.c = c)
      blobs == SelectSeq(here, LAMBDA t : t.item = NoItem)
      items == SelectSeq(here, LAMBDA t : t.item # NoItem)
  IN IF blobs # <<>> THEN blobs[1].blob
     ELSE IF items = <<>> THEN Missing
     ELSE stringifyList([i \in 1..Len(items) |-> items[i].item])

RECURSIVE putAll(_, _)
putAll(table, rows) ==
  IF rows = <<>> THEN table ELSE putAll(put(table, Head(rows)), Tail(rows))

\* The rows of a table: unique by primary key.
dbOf(cfg, c) ==
  LET here == SelectSeq(cfg, LAMBDA t : t.store = "db" /\ t.c = c)
  IN IF c = "settings"
     THEN IF here = <<>> THEN {} ELSE putSettings({}, here[1].blob.obj)
     ELSE putAll({}, [i \in 1..Len(here) |-> here[i].item])

InitStores(cfg) ==
  /\ ls = [k \in LsKeys |->
             IF k = MIGRATED_FLAG THEN Missing
             ELSE lsOf(cfg, CHOOSE c \in DOMAIN KEYS : KEYS[c] = k)]
  /\ db = [t \in DOMAIN KEYS |-> dbOf(cfg, t)]

InitRest ==
  /\ pc = "idle"
  /\ writes = <<>>
  /\ rm = 0
  /\ outcome = "none"
  /\ ls0 = [k \in LsKeys |-> Missing]
  /\ db0 = EmptyDb
  /\ retry = FALSE
  /\ calls = 0
  /\ last = NoCall
  /\ inflight = <<>>

\* ------------------------------------------------------------ specifications

\* The things a first startup of the Indexed-Store build may find: legacy
\* blobs of any content, and rows an earlier session has written.
MigThings ==
  LsItems
  \cup LsBlobs({EmptyText, Garbage, stringifyObj(NoObj)})
  \cup LsSettings({Garbage} \cup {stringifyObj(o) : o \in RawSettingsObjs})
  \cup DbRows({e \in UNION {Entities(c) : c \in Collections} : e.id = IdOrder[2]})
  \cup DbSettings(SettingsValues)

InitMig ==
  /\ \E cfg \in Configs(MigThings) : InitStores(cfg)
  /\ active = "db"
  /\ InitRest

NextMig ==
  \/ MigrateStart
  \/ \E i \in DOMAIN writes : WriteOk(i)
  \/ \E i \in DOMAIN writes : WriteFail(i)
  \/ SetFlag
  \/ RemoveKey
  \/ Crash

SpecMig == InitMig /\ [][NextMig]_vars

\* The migration run at every startup: a startup comes, a put that can
\* complete resolves or rejects, and the code after the await runs on.  The
\* stores hold things of two collections and the settings.
FairThings == {t \in MigThings : t.c \in {"areas", "events", "settings"}}

InitFair ==
  /\ \E cfg \in Configs(FairThings) : InitStores(cfg)
  /\ active = "db"
  /\ InitRest

SpecMigFair ==
  /\ InitFair /\ [][NextMig]_vars
  /\ WF_vars(MigrateStart)
  /\ \A i \in 1..(MaxStored + 1) : WF_vars(WriteOk(i) \/ WriteFail(i))
  /\ WF_vars(SetFlag)
  /\ WF_vars(RemoveKey)

\* The repository under the application's calls, on either adapter.
LsThings ==
  LsItems \cup LsBlobs({Garbage, stringifyObj(NoObj)})
  \cup LsSettings({Garbage, One} \cup {stringifyObj(o) : o \in RawSettingsObjs})
DbThings ==
  DbRows(UNION {RawItems(c) : c \in Collections}) \cup DbSettings(RawSettingsObjs)

Init ==
  /\ \/ active = "ls" /\ \E cfg \in Configs(LsThings) : InitStores(cfg)
     \/ active = "db" /\ \E cfg \in Configs(DbThings) : InitStores(cfg)
  /\ InitRest

Faults == {FALSE, TRUE}

\* The clear() calls of a clearAll that fail: none, one, or all.
ClearFaults == {{}, DOMAIN KEYS} \cup {{t} : t \in DOMAIN KEYS}

Next ==
  \/ \E c \in Collections : \E e \in Entities(c), f \in Faults : LsSave(c, e, f)
  \/ \E c \in Collections, id \in Ids, f \in Faults : LsDelete(c, id, f)
  \/ \E s \in SettingsValues, f \in Faults : LsSaveSettings(s, f)
  \/ LsClearAll
  \/ \E c \in Collections : \E e \in Entities(c), f \in Faults : DbSave(c, e, f)
  \/ \E c \in Collections, id \in Ids, f \in Faults : DbDelete(c, id, f)
  \/ \E s \in SettingsValues, f \in Faults : DbSaveSettings(s, f)
  \/ \E failed \in ClearFaults : DbClearAll(failed)

Spec == Init /\ [][Next]_vars

\* The two adapters, each on an empty store, under the same calls.
InitBoth ==
  /\ ls = [k \in LsKeys |-> Missing]
  /\ db = EmptyDb
  /\ active = "both"
  /\ InitRest

NextBoth ==
  \/ \E c \in Collections : \E e \in Entities(c) : BothSave(c, e)
  \/ \E c \in Collections, id \in Ids : BothDelete(c, id)
  \/ \E s \in SettingsValues : BothSaveSettings(s)
  \/ BothClearAll

SpecBoth == InitBoth /\ [][NextBoth]_vars

\* Either adapter under calls that are not awaited one by one.  The store
\* holds at most one thing at the start; ls0 and db0 keep what it held.
Configs1(things) ==
  UNION {[1..n -> {t \in things : ThingOK(t)}] : n \in 0..1}

InitConc ==
  /\ \/ active = "ls" /\ \E cfg \in Configs1(LsThings) : InitStores(cfg)
     \/ active = "db" /\ \E cfg \in Configs1(DbThings) : InitStores(cfg)
  /\ ls0 = ls /\ db0 = db
  /\ pc = "idle" /\ writes = <<>> /\ rm = 0 /\ outcome = "none" /\ retry = FALSE
  /\ calls = 0 /\ last = NoCall /\ inflight = <<>>

NextConc ==
  \/ \E c \in Collections : \E e \in Entities(c) : LsStartSave(c, e)
  \/ \E c \in Collections, id \in Ids : LsStartDelete(c, id)
  \/ LsResume
  \/ \E c \in Collections : \E e \in Entities(c) : DbStart("save", c, e)
  \/ \E c \in Collections, id \in Ids : DbStart("delete", c, [NoItem EXCEPT !.id = id])
  \/ \E i \in 1..MaxInflight : DbComplete(i)

SpecConc == InitConc /\ [][NextConc]_vars

\* The Indexed-Store, empty at the start, under saves of values of any
\* content: the parameter types of the save methods are gone at run time.
InitAnyValue ==
  /\ ls = [k \in LsKeys |-> Missing]
  /\ db = EmptyDb
  /\ active = "db"
  /\ InitRest

NextAnyValue ==
  \/ \E c \in Collections : \E e \in RawItems(c), f \in Faults : DbSave(c, e, f)
  \/ \E c \in Collections, id \in Ids, f \in Faults : DbDelete(c, id, f)

SpecAnyValue == InitAnyValue /\ [][NextAnyValue]_vars

\* The getters of the Flat-Store over keys of any content.
ReadThings ==
  LsItems \cup LsBlobs({EmptyText, Garbage, One, stringifyObj(NoObj)})

InitReads ==
  /\ \E cfg \in Configs(ReadThings) : InitStores(cfg)
  /\ active = "ls"
  /\ InitRest

NextReads == \E c \in Collections : LsGetAll(c)

SpecReads == InitReads /\ [][NextReads]_vars

\* The repository of a browser that may have run the migration: the flag is
\* set or not, and the store holds at most one thing.
InitFlag ==
  /\ \E flag \in {Missing, One} :
       \/ /\ active = "ls"
          /\ \E cfg \in Configs1(LsThings) :
               /\ ls = [k \in LsKeys |->
                          IF k = MIGRATED_FLAG THEN flag
                          ELSE lsOf(cfg, CHOOSE c \in DOMAIN KEYS : KEYS[c] = k)]
               /\ db = EmptyDb
       \/ /\ active = "db"
          /\ \E cfg \in Configs1(DbThings) :
               /\ ls = [k \in LsKeys |-> IF k = MIGRATED_FLAG THEN flag ELSE Missing]
               /\ db = [t \in DOMAIN KEYS |-> dbOf(cfg, t)]
  /\ InitRest

SpecFlag == InitFlag /\ [][Next]_vars

\* The areas of either adapter, with planters: a stored area of any content,
\* and the application's saveArea and deleteArea.
InitPlanters ==
  /\ \E a \in RawPlanterAreas :
       \/ /\ active = "ls"
          /\ ls = [k \in LsKeys |-> IF k = KEYS.areas THEN stringifyList(<<a>>) ELSE Missing]
          /\ db = EmptyDb
       \/ /\ active = "db"
          /\ ls = [k \in LsKeys |-> Missing]
          /\ db = [EmptyDb EXCEPT !.areas = {a}]
  /\ InitRest

NextPlanters ==
  \/ \E e \in PlanterAreas, f \in Faults : LsSave("areas", e, f)
  \/ \E id \in Ids, f \in Faults : LsDelete("areas", id, f)
  \/ \E e \in PlanterAreas, f \in Faults : DbSave("areas", e, f)
  \/ \E id \in Ids, f \in Faults : DbDelete("areas", id, f)

SpecPlanters == InitPlanters /\ [][NextPlanters]_vars
\* ------------------------------------------------ properties of the migration

LegacyKeySet == {LEGACY_KEYS[i] : i \in DOMAIN LEGACY_KEYS}

\* The schema-valid items of a stored text, parsed.
validItems(c, text) ==
  IF text.kind = "list" THEN flatMapParse(c, text.items) ELSE <<>>

\* C1: the flag is set only when every destination write of the run has
\* completed successfully, and a legacy key differs from what the run found
\* only when the flag is set.
C1_FlagAfterAllWrites ==
  /\ ls[MIGRATED_FLAG] # Missing => \A i \in DOMAIN writes : writes[i].status = "ok"
  /\ (outcome # "none" /\ \E k \in LegacyKeySet : ls[k] # ls0[k]) => ls[MIGRATED_FLAG] = One

\* C1 happens: a run with several destination writes has set the flag and has
\* not yet removed a key.
C1_Witness ==
  /\ pc = "cleanup" /\ rm = 1
  /\ ls[MIGRATED_FLAG] = One
  /\ Len(writes) >= 3
  /\ \A k \in LegacyKeySet : ls[k] = ls0[k]

\* C2: once a destination write of a run has failed, the flag is unset and
\* every legacy key holds the text it held before the run.
C2_FailedWriteKeepsSource ==
  (\E i \in DOMAIN writes : writes[i].status = "failed")
    => /\ ls[MIGRATED_FLAG] = Missing
       /\ \A k \in LegacyKeySet : ls[k] = ls0[k]

\* C2 happens: a run over stored legacy data was aborted by a failed write
\* after another of its writes had succeeded.
C2_Witness ==
  /\ outcome = "aborted" /\ pc = "idle"
  /\ \E i \in DOMAIN writes : writes[i].status = "failed"
  /\ \E i \in DOMAIN writes : writes[i].status = "ok"
  /\ \E k \in LegacyKeySet : ls[k].kind = "list"

\* C4: a run that finds the flag "1" writes nothing to the Indexed-Store,
\* removes no key and does not write the flag.
C4_SecondRunNoop ==
  [][(MigrateStart /\ ls[MIGRATED_FLAG] = One)
       => (db' = db /\ ls' = ls /\ writes' = writes /\ pc' = "idle")]_vars

\* C4 happens: after a run that migrated stored data, a second run returned.
C4_Witness ==
  /\ outcome = "noop"
  /\ ls[MIGRATED_FLAG] = One
  /\ Len(writes) >= 2
  /\ \E c \in Collections : db[c] # db0[c]

\* C3: at every point of a migration run, every schema-valid entity stored
\* under a legacy key before the run is still under that key or is a row of
\* the Indexed-Store.
C3_NoDataLoss ==
  outcome # "none" =>
    \A c \in Collections :
      \A x \in Range(validItems(c, ls0[KEYS[c]])) :
        x \in Range(validItems(c, ls[KEYS[c]])) \/ x \in db[c]

\* C5: after a run that has completed on an Indexed-Store that was empty,
\* getAll of each collection returns exactly the schema-valid items of the
\* legacy blob, getSettings the legacy settings merged with the defaults, the
\* flag is "1" and the five legacy keys are absent.
C5_MigratedExactly ==
  (outcome = "done" /\ db0 = EmptyDb) =>
    /\ \A c \in Collections :
         /\ Range(dbGetAll(c)) = Range(validItems(c, ls0[KEYS[c]]))
         /\ Len(dbGetAll(c)) = Len(validItems(c, ls0[KEYS[c]]))
    /\ dbGetSettings = parseWithDefaults(ls0[KEYS.settings])
    /\ ls[MIGRATED_FLAG] = One
    /\ \A k \in LegacyKeySet : ls[k] = Missing

\* C6: a run that finds the flag unset and no legacy key leaves the
\* Indexed-Store as it found it.
C6_NoLegacyDataNoWrite ==
  (outcome # "none" /\ \A k \in LegacyKeySet : ls0[k] = Missing) => db = db0

\* The rows of a table after one run without a fault: the rows found, each
\* legacy entity in place of the row of its id, the last of an id in place
\* of the earlier ones.
FaultFreeRows(c) ==
  LET v == validItems(c, ls0[KEYS[c]])
  IN {r \in db0[c] : \A i \in DOMAIN v : v[i].id # r.id}
     \cup {v[i] : i \in {k \in DOMAIN v : \A j \in (k + 1)..Len(v) : v[j].id # v[k].id}}

FaultFreeResult ==
  [t \in DOMAIN KEYS |->
     IF t = "settings"
     THEN {[key |-> "singleton", value |-> parseWithDefaults(ls0[KEYS.settings])]}
     ELSE FaultFreeRows(t)]

\* C7 as stated: under a startup after every run, unless destination writes
\* fail again and again (or the run is killed again and again), a run sets
\* the flag, and the Indexed-Store then holds what one run without a fault
\* leaves.
C7_RetryUnlessWritesFail ==
  /\ <>(ls[MIGRATED_FLAG] = One) \/ []<>(outcome \in {"aborted", "crashed"})
  /\ [](ls[MIGRATED_FLAG] = One => db = FaultFreeResult)

\* C7, with the write of the flag among the writes that must stop failing:
\* under a startup after every run, unless destination writes or the write
\* of the flag fail again and again (or the run is killed again and again),
\* a run sets the flag, and the Indexed-Store then holds what one run
\* without a fault leaves.
C7_RetryUnlessFaults ==
  /\ <>(ls[MIGRATED_FLAG] = One) \/ []<>(outcome \in {"aborted", "crashed", "flagfault"})
  /\ [](ls[MIGRATED_FLAG] = One => db = FaultFreeResult)

\* C7 happens: the run that follows a run aborted by a write fault has set
\* the flag.
C7_Witness ==
  /\ retry /\ ls[MIGRATED_FLAG] = One
  /\ Len(writes) >= 2
  /\ db = FaultFreeResult

\* ----------------------------------------------- properties of the repository

\* getAll of the adapter in use.
getAll(c) ==
  IF active = "ls" THEN lsGetAll(c) ELSE dbGetAll(c)

\* The items stored for a collection, as a set of positions or rows.
storedItems(c) ==
  IF active = "ls"
  THEN IF ls[KEYS[c]].kind = "list"
       THEN {<<i, ls[KEYS[c]].items[i]>> : i \in DOMAIN ls[KEYS[c]].items}
       ELSE {}
  ELSE {<<r.id, r>> : r \in db[c]}

countOfId(items, id) ==
  Cardinality({i \in DOMAIN items : items[i].id = id})

\* C8: after save(e) has completed without a storage fault, on either
\* adapter and whatever was stored before, getAll contains e.
C8_RoundTrip ==
  (last.op = "save" /\ ~last.fault) => last.item \in Range(getAll(last.c))

\* C8 happens: a save on the Flat-Store has completed on a collection that
\* holds another entity as well.
C8_Witness ==
  /\ active = "ls" /\ last.op = "save" /\ ~last.fault
  /\ Len(lsGetAll(last.c)) >= 2
  /\ last.item \in Range(lsGetAll(last.c))

\* C9: a save of e that follows an identical save leaves exactly one entity
\* of e's id and getAll as it was; a save of an id that exists puts e
\* in place of an entity of that id and leaves the number of entities as it was.
C9_UpsertIdempotent ==
  [][\A c \in Collections : \A e \in Entities(c) :
       (LsSave(c, e, FALSE) \/ DbSave(c, e, FALSE)) =>
         /\ (last.op = "save" /\ last.c = c /\ last.item = e /\ ~last.fault)
              => /\ countOfId(getAll(c)', e.id) = 1
                 /\ getAll(c)' = getAll(c)
         /\ countOfId(getAll(c), e.id) >= 1
              => /\ Len(getAll(c)') = Len(getAll(c))
                 /\ e \in Range(getAll(c)')]_vars

\* C10: getAll returns exactly the stored items that are schema-valid, each
\* as the schema reads it, one for one, on either adapter.
C10_ValidItemsOnly ==
  \A c \in Collections :
    /\ Range(getAll(c)) = {SchemaData(c, p[2]) : p \in {q \in storedItems(c) : SchemaOK(c, q[2])}}
    /\ Len(getAll(c)) = Cardinality({q \in storedItems(c) : SchemaOK(c, q[2])})

\* C10 happens: a stored list of the Flat-Store holds a valid and an invalid
\* item, and getAll returns the valid one.
C10_Witness ==
  /\ active = "ls"
  /\ \E c \in Collections :
       /\ \E q \in storedItems(c) : SchemaOK(c, q[2])
       /\ \E q \in storedItems(c) : ~SchemaOK(c, q[2])
       /\ Len(lsGetAll(c)) = 1

\* getSettings of the adapter in use.
getSettings ==
  IF active = "ls" THEN lsGetSettings ELSE dbGetSettings

\* Whether a settings object is stored: an object under the key of the
\* Flat-Store, the singleton row of the Indexed-Store.
settingsStored ==
  IF active = "ls" THEN ls[KEYS.settings].kind = "object"
  ELSE \E r \in db.settings : r.key = "singleton"

\* C11: getSettings returns a complete settings value whatever is stored:
\* the schema defaults when no settings object is stored (no text, a text
\* that is not JSON, a JSON value that is not an object), and after a
\* saveSettings(s) that met no storage fault the value s.
C11_SettingsTotal ==
  /\ getSettings.location \notin {ABSENT, BAD}
  /\ getSettings.growthZone \notin {ABSENT, BAD}
  /\ ~settingsStored => getSettings = SettingsDefaults
  /\ (last.op = "saveSettings" /\ ~last.fault) => getSettings = last.value

\* C11 happens: a saveSettings of values other than the defaults has
\* completed, and getSettings returns what was saved.
C11_Witness ==
  /\ last.op = "saveSettings" /\ ~last.fault
  /\ settingsStored
  /\ getSettings = last.value
  /\ getSettings.growthZone # SettingsDefaults.growthZone

\* The value getSettings of the adapter in use hands to parseWithDefaults:
\* raw ?? {}, row?.value ?? {}.
rawSettings ==
  IF active = "ls"
  THEN LET raw == readRaw(KEYS.settings)
       IN IF raw.kind = "null" THEN objValue(NoObj) ELSE raw
  ELSE IF \E r \in db.settings : r.key = "singleton"
       THEN objValue((CHOOSE r \in db.settings : r.key = "singleton").value)
       ELSE objValue(NoObj)

\* The fields of a value that are present and valid, laid over the
\* defaults; a value that is not an object has no field.
overlay(v) ==
  LET o == IF v.kind = "object" THEN v.obj ELSE NoObj
  IN [f \in DOMAIN SettingsDefaults |->
        IF o[f] \in {ABSENT, BAD} THEN SettingsDefaults[f] ELSE o[f]]

\* C12: parseWithDefaults returns, for the value it is given, a complete
\* valid settings value: the fields present in the value laid over the
\* schema defaults, a value that is not an object counting as the empty
\* object.
C12_OverlayOnDefaults ==
  /\ parseWithDefaults(rawSettings).location \notin {ABSENT, BAD}
  /\ parseWithDefaults(rawSettings).growthZone \notin {ABSENT, BAD}
  /\ parseWithDefaults(rawSettings) = overlay(rawSettings)

\* C13: on either adapter and after any saveEvent and deleteEvent, getEvents
\* returns the events newest first: an event never stands before an event of
\* a later date.
C13_NewestFirst ==
  LET events == getAll("events")
  IN \A i, j \in DOMAIN events :
       i < j => getTime(events[i].date) >= getTime(events[j].date)

\* C13 happens: a saveEvent has stored a later event behind an earlier one,
\* and getEvents returns the later one first.
C13_Witness ==
  /\ active = "ls" /\ last.op = "save" /\ last.c = "events" /\ ~last.fault
  /\ ls[KEYS.events].kind = "list" /\ Len(ls[KEYS.events].items) = 2
  /\ getTime(ls[KEYS.events].items[1].date) < getTime(ls[KEYS.events].items[2].date)
  /\ Len(getAll("events")) = 2
  /\ getAll("events")[1] = ls[KEYS.events].items[2]

\* A list without the entities of an id.
withoutId(items, id) ==
  SelectSeq(items, LAMBDA x : x.id # id)

\* C14: a delete(id) that meets no storage fault leaves, on either adapter,
\* getAll of its collection as it was but for the entities of that id, which
\* are gone (nothing changes when there was none), and getAll of every other
\* collection and getSettings as they were.
C14_DeleteOnlyThat ==
  [][\A c \in Collections, id \in Ids :
       (LsDelete(c, id, FALSE) \/ DbDelete(c, id, FALSE)) =>
         /\ getAll(c)' = withoutId(getAll(c), id)
         /\ \A d \in Collections \ {c} : getAll(d)' = getAll(d)
         /\ getSettings' = getSettings]_vars

\* C14 happens: a delete of an id that was held has completed, and another
\* entity of the collection is still returned.
C14_Witness ==
  /\ last.op = "delete" /\ last.hit /\ ~last.fault
  /\ Len(getAll(last.c)) >= 1
  /\ \A x \in Range(getAll(last.c)) : x.id # last.item.id

\* C15: after a clearAll that has completed, on either adapter and whatever
\* was stored, getAll of every collection is empty and getSettings returns
\* the schema defaults.
C15_ClearAllWipes ==
  (last.op = "clearAll" /\ ~last.fault) =>
    /\ \A c \in Collections : getAll(c) = <<>>
    /\ getSettings = SettingsDefaults

\* C15 happens: a clearAll on a store that held an entity has completed.
C15_Witness ==
  /\ last.op = "clearAll" /\ last.hit /\ ~last.fault
  /\ \A c \in Collections : getAll(c) = <<>>

\* C16: a save, delete or saveSettings that meets a storage fault does not
\* throw to its caller, on either adapter, and leaves getAll of every
\* collection and getSettings as they were.
C16_FaultsCaught ==
  [][(last'.op \in {"save", "delete", "saveSettings"} /\ last'.fault) =>
       /\ ~last'.threw
       /\ \A c \in Collections : getAll(c)' = getAll(c)
       /\ getSettings' = getSettings]_vars

\* C17: a save, delete or saveSettings of the Flat-Store whose storage write
\* fails leaves the text under every key exactly as it was, and getAll of
\* every collection and getSettings as they were.
C17_FailedWriteKeepsBlobs ==
  [][(active = "ls" /\ last'.op \in {"save", "delete", "saveSettings"} /\ last'.fault) =>
       /\ ls' = ls
       /\ \A c \in Collections : getAll(c)' = getAll(c)
       /\ getSettings' = getSettings]_vars

\* C17 happens: the write of a save of a new entity has failed on a
\* Flat-Store that holds another entity of the collection, and getAll
\* returns that other entity alone.
C17_Witness ==
  /\ active = "ls" /\ last.op = "save" /\ last.fault /\ ~last.hit
  /\ Len(getAll(last.c)) = 1
  /\ last.item \notin Range(getAll(last.c))

\* C18: after the same calls of save, delete, saveSettings and clearAll, from
\* empty stores and with no storage fault, getAll of every collection
\* returns the same entities in the same order on both adapters, and
\* getSettings the same value.
C18_SameResults ==
  active = "both" =>
    /\ \A c \in Collections : lsGetAll(c) = dbGetAll(c)
    /\ lsGetSettings = dbGetSettings

\* C19: every planter of an area that getAll returns, on either adapter, and
\* so every planter the validation accepts, that has a grid of squares has
\* exactly rows rows in it and cols squares in each row.
C19_GridMatchesDims ==
  \A i \in DOMAIN getAll("areas") :
    LET planters == getAll("areas")[i].planters
    IN \A k \in DOMAIN planters :
         planters[k].hasSquares =>
           /\ Len(planters[k].squares) = planters[k].rows
           /\ \A r \in DOMAIN planters[k].squares :
                Len(planters[k].squares[r]) = planters[k].cols

\* C20: whatever is stored, on either adapter and after any save and delete,
\* getAll of a collection returns no two entities of one id.
C20_UniqueIds ==
  \A c \in Collections : \A id \in Ids : countOfId(getAll(c), id) <= 1

\* C21: when every call started on the Flat-Store has completed, with no
\* storage fault, and the calls were saves of different ids to one
\* collection, getAll of the collection contains every entity saved,
\* whether or not a call was started while another was suspended.
C21_NoLostUpdate ==
  (/\ active = "ls" /\ inflight # <<>>
   /\ \A i \in DOMAIN inflight : inflight[i].done /\ inflight[i].op = "save"
   /\ \A i, j \in DOMAIN inflight :
        i # j => inflight[i].c = inflight[j].c /\ inflight[i].item.id # inflight[j].item.id)
    => \A i \in DOMAIN inflight : inflight[i].item \in Range(lsGetAll(inflight[i].c))

\* The rows of a table after every call in flight has been applied to the
\* rows found at the start, each call to the row of its own id.
eachToItsRow(c) ==
  LET mine == {i \in DOMAIN inflight : inflight[i].c = c}
  IN {r \in db0[c] : \A i \in mine : inflight[i].item.id # r.id}
     \cup {inflight[i].item : i \in {k \in mine : inflight[k].op = "save"}}

\* C22: when every save and delete started on the Indexed-Store has
\* completed, in whatever order, and the calls on one table were on
\* different ids, each table holds the rows it held at the start with each
\* call applied to the row of its id.
C22_RowsIndependent ==
  (/\ active = "db"
   /\ \A i \in DOMAIN inflight : inflight[i].done
   /\ \A i, j \in DOMAIN inflight :
        (i # j /\ inflight[i].c = inflight[j].c) => inflight[i].item.id # inflight[j].item.id)
    => \A c \in Collections : db[c] = eachToItsRow(c)

\* C22 happens: a save and a delete of different ids on one table, the
\* second started before the first had completed, have both completed, and
\* the delete has removed a row.
C22_Witness ==
  /\ active = "db" /\ Len(inflight) = 2
  /\ inflight[1].done /\ inflight[2].done /\ inflight[2].overlap
  /\ inflight[1].c = inflight[2].c
  /\ inflight[1].item.id # inflight[2].item.id
  /\ {inflight[1].op, inflight[2].op} = {"save", "delete"}
  /\ db0[inflight[1].c] # {}
  /\ db[inflight[1].c] = eachToItsRow(inflight[1].c)
  /\ \A r \in db0[inflight[1].c] : r \notin db[inflight[1].c]

\* C23: no table of the Indexed-Store, empty at the start and written by
\* the save methods alone, holds a row that fails its schema.
C23_ValidatedOnWrite ==
  \A c \in Collections : \A r \in db[c] : SchemaOK(c, r)

\* The list stored under the key of a collection, item by item as stored.
storedList(c) ==
  IF ls[KEYS[c]].kind = "list" THEN ls[KEYS[c]].items ELSE <<>>

\* C24: a save of the Flat-Store that meets no storage fault, on any
\* collection, puts the entity in the place of a stored element of its id
\* and leaves every other element of the stored list at its position, or,
\* when no stored element has the id, leaves the stored list as it was with
\* the entity appended.
C24_SaveKeepsPositions ==
  [][\A c \in Collections : \A e \in Entities(c) :
       LsSave(c, e, FALSE) =>
         IF \E i \in DOMAIN storedList(c) : storedList(c)[i].id = e.id
         THEN /\ Len(storedList(c)') = Len(storedList(c))
              /\ \E i \in DOMAIN storedList(c) :
                   storedList(c)[i].id = e.id /\ storedList(c)'[i] = e
              /\ \A i \in DOMAIN storedList(c) :
                   storedList(c)[i].id # e.id => storedList(c)'[i] = storedList(c)[i]
         ELSE storedList(c)' = Append(storedList(c), e)]_vars

\* C25: a getAll of the Flat-Store on a key that is missing, or whose text
\* is not JSON, or whose value is not a list, returns the empty list, does
\* not throw and leaves the text under every key as it was.
C25_BadStorageReadsEmpty ==
  [][\A c \in Collections :
       (LsGetAll(c) /\ ls[KEYS[c]].kind # "list") =>
         /\ lsGetAll(c) = <<>>
         /\ ~last'.threw
         /\ ls' = ls]_vars

\* C25 happens: a getAll has returned from a key whose text is not JSON,
\* while another key holds a list with a valid item.
C25_Witness ==
  /\ last.op = "getAll" /\ ~last.threw
  /\ ls[KEYS[last.c]] = Garbage
  /\ lsGetAll(last.c) = <<>>
  /\ \E c \in Collections : lsGetAll(c) # <<>>

\* The entities a run has collected from the key of a collection: the rows
\* of its save calls on that table.
collected(ws, c) ==
  {ws[i].row : i \in {k \in DOMAIN ws : ws[k].table = c}}

\* C26: a migration run that finds the flag unset collects from every legacy
\* key, whatever its text, the entities getAll of the Flat-Store returns for
\* it, and resolves the settings getSettings of the Flat-Store returns.
C26_ReadsAsGetAll ==
  [][(MigrateStart /\ ~alreadyMigrated) =>
       /\ \A c \in Collections : collected(writes', c) = Range(lsGetAll(c))
       /\ \E i \in DOMAIN writes' : writes'[i].table = "settings"
       /\ \A i \in DOMAIN writes' :
            writes'[i].table = "settings" => writes'[i].value = lsGetSettings]_vars

\* C26 happens: a run has collected the valid item of a legacy list that
\* holds an invalid item as well.
C26_Witness ==
  /\ pc = "awaiting" /\ outcome = "running"
  /\ \E c \in Collections :
       /\ ls[KEYS[c]].kind = "list"
       /\ \E i \in DOMAIN ls[KEYS[c]].items : ~SchemaOK(c, ls[KEYS[c]].items[i])
       /\ collected(writes, c) # {}
       /\ collected(writes, c) = Range(lsGetAll(c))

\* C27: a save or a delete on a collection, on either adapter and with or
\* without a storage fault, leaves the text under every other key and the
\* rows of every other table as they were, the settings and the flag of the
\* migration among them; a saveSettings leaves everything but the settings
\* as it was; a clearAll of the Flat-Store leaves the flag as it was.
C27_OthersUnchanged ==
  [][/\ last'.op \in {"save", "delete", "saveSettings"} =>
          /\ \A k \in LsKeys : k # KEYS[last'.c] => ls'[k] = ls[k]
          /\ \A t \in DOMAIN KEYS : t # last'.c => db'[t] = db[t]
     /\ (last'.op = "clearAll" /\ active = "ls") =>
          ls'[MIGRATED_FLAG] = ls[MIGRATED_FLAG]]_vars

\* C27 happens: with the flag set, a save on one collection of the
\* Flat-Store has completed while another collection holds an entity.
C27_Witness ==
  /\ active = "ls" /\ last.op = "save" /\ ~last.fault
  /\ ls[MIGRATED_FLAG] = One
  /\ last.item \in Range(lsGetAll(last.c))
  /\ \E c \in Collections \ {last.c} : lsGetAll(c) # <<>>

\* C28: after a save or a delete of the Flat-Store that met no storage
\* fault, the key of the collection holds a list, and no item of the list
\* fails its schema, whatever the key held before.
C28_BlobRewrittenValid ==
  (active = "ls" /\ last.op \in {"save", "delete"} /\ ~last.fault) =>
    /\ ls[KEYS[last.c]].kind = "list"
    /\ \A i \in DOMAIN ls[KEYS[last.c]].items :
         SchemaOK(last.c, ls[KEYS[last.c]].items[i])

\* C28 happens: a delete of an id that was not held has completed on a
\* list that held an invalid item and holds a valid one.
C28_Witness ==
  /\ active = "ls" /\ last.op = "delete" /\ ~last.fault
  /\ last.dirty /\ ~last.hit
  /\ ls[KEYS[last.c]].kind = "list" /\ ls[KEYS[last.c]].items # <<>>
  /\ \A i \in DOMAIN ls[KEYS[last.c]].items :
       SchemaOK(last.c, ls[KEYS[last.c]].items[i])

\* C29: after a migration run that found the flag unset has completed, every
\* row the Indexed-Store held whose id is that of a valid legacy entity of
\* its collection has a legacy entity of that id in its place, every other
\* row it held is as it was, and the settings row holds the legacy settings
\* as resolved against the defaults.
C29_OverwritesById ==
  outcome = "done" =>
    /\ \A c \in Collections : \A r \in db0[c] :
         IF \E x \in Range(validItems(c, ls0[KEYS[c]])) : x.id = r.id
         THEN \A y \in db[c] : y.id = r.id => y \in Range(validItems(c, ls0[KEYS[c]]))
         ELSE r \in db[c]
    /\ \A c \in Collections : \A x \in Range(validItems(c, ls0[KEYS[c]])) :
         \E y \in db[c] : y.id = x.id
    /\ db.settings = {[key |-> "singleton", value |-> parseWithDefaults(ls0[KEYS.settings])]}

\* C29 happens: a run has completed on an Indexed-Store that held a row of
\* the id of a legacy entity, and the legacy entity is now in its place.
C29_Witness ==
  /\ outcome = "done"
  /\ \E c \in Collections : \E r \in db0[c] :
       /\ r \notin db[c]
       /\ \E y \in db[c] : y.id = r.id /\ y \in Range(validItems(c, ls0[KEYS[c]]))

\* C30: the destination writes of a run are all issued when the run starts,
\* and a write of a run that has succeeded stays applied whatever becomes of
\* the other writes and of the run: its table holds the row written, or the
\* row of a later successful write of the run to the same id, and the
\* settings row holds the settings written.
C30_NoRollback ==
  /\ [][(MigrateStart /\ ~alreadyMigrated) =>
          (writes' = migrationWrites /\ \A i \in DOMAIN writes' : writes'[i].status = "pending")]_vars
  /\ [](\A i \in DOMAIN writes :
          writes[i].status = "ok" =>
            IF writes[i].table = "settings"
            THEN db.settings = {[key |-> "singleton", value |-> writes[i].value]}
            ELSE \E y \in db[writes[i].table] :
                   /\ y.id = writes[i].row.id
                   /\ \E k \in DOMAIN writes :
                        /\ writes[k].status = "ok" /\ writes[k].table = writes[i].table
                        /\ writes[k].row = y)

\* C30 happens: a run was aborted by a failed write; a row another of its
\* writes has stored is in the Indexed-Store, the flag is unset and the
\* legacy keys are as the run found them.
C30_Witness ==
  /\ outcome = "aborted" /\ pc = "idle"
  /\ \E j \in DOMAIN writes : writes[j].status = "failed"
  /\ \E i \in DOMAIN writes :
       /\ writes[i].status = "ok" /\ writes[i].table # "settings"
       /\ writes[i].row \in db[writes[i].table]
       /\ writes[i].row \notin db0[writes[i].table]
  /\ ls[MIGRATED_FLAG] = Missing
  /\ \A k \in LegacyKeySet : ls[k] = ls0[k]
====
